---- MODULE Spec2Model ----
(***************************************************************************)
(* Model of the fiscal-report batch processor (app_parcelamento.py) and of *)
(* the dashboard page's download lookup (pages/2_Dashboard.py).            *)
(*                                                                         *)
(* Strings are sequences of one-character strings (a section header or a   *)
(* marker of the classifier is a sequence of word tokens), so that         *)
(* lower(), endswith(), find(), slicing, strip() and concatenation are     *)
(* computed, not assumed.  An Optional[str] is a record [none, s].         *)
(***************************************************************************)
EXTENDS Integers, Sequences, FiniteSets, Bags, TLC

VARIABLES
    archive,         \* zf.infolist(): sequence of [filename, data]
    search_terms,    \* the terms split from the sidebar text area
    pc,              \* position of the script run of processamento()
    futs,            \* future_to_file: per future its filename, bytes, state, result
    collected,       \* futures already yielded by as_completed
    total_pdfs,
    processed,
    all_results,
    matched_files,
    unmatched_files,
    errors,          \* filenames reported by st.error at line 201
    session,         \* st.session_state['dados_processados']
    display,         \* what the page rendered after the loop
    out_zip,         \* entries written to the output archive
    dash,            \* what the dashboard page rendered last
    text,            \* classifier input under SpecClassify
    nfrags,          \* fragments appended to text so far
    cls,             \* classifier outputs under SpecClassify
    f_results,       \* filter_results inputs and output under SpecFilter
    f_terms,
    f_out

batchVars == <<archive, search_terms, pc, futs, collected, total_pdfs, processed,
               all_results, matched_files, unmatched_files, errors, session,
               display, out_zip, dash>>
classVars == <<text, nfrags, cls>>
filterVars == <<f_results, f_terms, f_out>>
vars == <<batchVars, classVars, filterVars>>

(* ------------------------------ bounds -------------------------------- *)
MaxEntries == 2
MaxFrags == 4
MaxRecs == 2
MaxTerms == 2

(* ------------------------- string primitives -------------------------- *)
Min(a, b) == IF a < b THEN a ELSE b

\* str.lower() on one character
LowerChar(c) ==
    CASE c = "A" -> "a" [] c = "B" -> "b" [] c = "C" -> "c" [] c = "D" -> "d"
      [] c = "E" -> "e" [] c = "F" -> "f" [] c = "M" -> "m" [] c = "P" -> "p"
      [] c = "T" -> "t" [] c = "X" -> "x" [] OTHER -> c

\* str.lower()
Lower(s) == [i \in 1..Len(s) |-> LowerChar(s[i])]

\* s.endswith(suf)
EndsWith(s, suf) ==
    /\ Len(s) >= Len(suf)
    /\ SubSeq(s, Len(s) - Len(suf) + 1, Len(s)) = suf

\* pat occurs in s at zero-based offset p
OccursAt(s, pat, p) ==
    /\ p >= 0
    /\ p + Len(pat) <= Len(s)
    /\ SubSeq(s, p + 1, p + Len(pat)) = pat

\* s.find(pat): zero-based offset of the first occurrence, -1 when absent
Find(s, pat) ==
    LET hits == {p \in 0..Len(s) : OccursAt(s, pat, p)}
    IN  IF hits = {} THEN -1
        ELSE CHOOSE p \in hits : \A q \in hits : p <= q

\* pat in s
In(pat, s) == Find(s, pat) # -1

\* s[a:b] for non-negative a, b
Slice(s, a, b) ==
    IF a >= Min(b, Len(s)) THEN <<>> ELSE SubSeq(s, a + 1, Min(b, Len(s)))

\* s[a:] for non-negative a
SliceFrom(s, a) == Slice(s, a, Len(s))

IsSpace(c) == c = " "

\* str.strip()
RECURSIVE LStrip(_)
LStrip(s) == IF s # <<>> /\ IsSpace(Head(s)) THEN LStrip(Tail(s)) ELSE s
RECURSIVE RStrip(_)
RStrip(s) ==
    IF s # <<>> /\ IsSpace(s[Len(s)]) THEN RStrip(SubSeq(s, 1, Len(s) - 1)) ELSE s
Strip(s) == RStrip(LStrip(s))

NoneStr == [none |-> TRUE, s |-> <<>>]
Some(s) == [none |-> FALSE, s |-> s]
\* truth value of an Optional[str]: None and "" are falsy
Truthy(e) == ~e.none /\ e.s # <<>>

(* ---------------------------- the classifier -------------------------- *)
rf_title == <<"Diagnostico Fiscal na", "Receita Federal">>
pgfn_title == <<"Diagnostico Fiscal na", "Procuradoria-Geral da Fazenda Nacional">>
EM_PARCELAMENTO == <<"EM", "PARCELAMENTO">>
PENDENCIA_PARCELAMENTO == <<"Pendencia -", "Parcelamento">>
BASE_INDISPONIVEL == <<"BASE", "INDISPONIVEL">>
PARCELAMENTO_WORD == <<"Parcelamento">>
NAO_FORAM_DETECTADAS == <<"Nao foram detectadas pendencias/exigibilidades suspensas">>

\* mutant: the RF section runs to the end of the text
RfSectionToEnd(t, rf_start, pgfn_start) ==
    IF rf_start # -1 /\ pgfn_start # -1 THEN SliceFrom(t, rf_start) ELSE <<>>

\* rf_section = text[rf_start:pgfn_start] if both found else ""
RfSection(t, rf_start, pgfn_start) ==
    IF rf_start # -1 /\ pgfn_start # -1 THEN Slice(t, rf_start, pgfn_start) ELSE <<>>

\* pgfn_section = text[pgfn_start:] if found else ""
PgfnSection(t, pgfn_start) ==
    IF pgfn_start # -1 THEN SliceFrom(t, pgfn_start) ELSE <<>>

\* rf_parc after the primary and the secondary check
RfParc(rf_section) ==
    LET rf_parc == In(EM_PARCELAMENTO, rf_section)
    IN  IF ~rf_parc /\ In(BASE_INDISPONIVEL, rf_section)
                    /\ In(PARCELAMENTO_WORD, rf_section)
        THEN FALSE
        ELSE rf_parc

\* pgfn_parc after the primary and the secondary check
PgfnParc(pgfn_section) ==
    LET pgfn_parc == In(PENDENCIA_PARCELAMENTO, pgfn_section)
    IN  IF ~pgfn_parc /\ In(NAO_FORAM_DETECTADAS, pgfn_section)
        THEN FALSE
        ELSE pgfn_parc

analyze_text(t) ==
    LET rf_start == Find(t, rf_title)
        pgfn_start == Find(t, pgfn_title)
        rf_section == RfSection(t, rf_start, pgfn_start)
        pgfn_section == PgfnSection(t, pgfn_start)
    IN  [rf |-> RfParc(rf_section), pgfn |-> PgfnParc(pgfn_section)]

\* the same steps as inlined in process_pdf
process_pdf_classify(t) ==
    LET rf_start == Find(t, rf_title)
        pgfn_start == Find(t, pgfn_title)
        rf_section == RfSection(t, rf_start, pgfn_start)
        pgfn_section == PgfnSection(t, pgfn_start)
        rf_parc == RfParc(rf_section)
        pgfn_parc == PgfnParc(pgfn_section)
    IN  [rf |-> rf_parc, pgfn |-> pgfn_parc]

(* ------------------------- uploaded documents ------------------------- *)
\* A PDF byte blob, described by what the two extractors make of it:
\* readable = PdfReader/pdfplumber open it; pages = per page, whether the CNPJ
\* pattern matches its text and the raw group(2); text = the full text.
NoMatch == [match |-> FALSE, group2 |-> <<>>]
Match(g) == [match |-> TRUE, group2 |-> g]
Acme == <<"A", "c", "m", "e">>

BlobAcmeRf ==
    [readable |-> TRUE, pages |-> <<Match(Acme \o <<" ">>)>>,
     text |-> rf_title \o EM_PARCELAMENTO \o pgfn_title]
BlobAcmePgfn ==
    [readable |-> TRUE, pages |-> <<NoMatch, Match(Acme)>>,
     text |-> pgfn_title \o PENDENCIA_PARCELAMENTO]
BlobLateHeader ==
    [readable |-> TRUE, pages |-> <<NoMatch, NoMatch, Match(Acme)>>, text |-> <<>>]
BlobBlankName ==
    [readable |-> TRUE, pages |-> <<Match(<<" ">>)>>, text |-> rf_title]
BlobCorrupt ==
    [readable |-> FALSE, pages |-> <<>>, text |-> <<>>]
Blobs == {BlobAcmeRf, BlobAcmePgfn, BlobLateHeader, BlobBlankName, BlobCorrupt}

DotPdf == <<".", "p", "d", "f">>
FileNames ==
    { <<"a">> \o DotPdf, <<"b", ".", "P", "D", "F">>, <<"c", ".", "t", "x", "t">> }
Entries == [filename : FileNames, data : Blobs]

RECURSIVE SeqsUpTo(_, _)
SeqsUpTo(S, n) ==
    IF n = 0 THEN {<<>>}
    ELSE LET shorter == SeqsUpTo(S, n - 1)
         IN  shorter \cup {Append(q, x) : q \in {r \in shorter : Len(r) = n - 1}, x \in S}

SearchInputs == { <<>>, << <<"a", "c">> >> }

\* zf.read(name): the archive's name table keeps the last entry of a name
zfRead(zf, name) ==
    LET idx == {i \in 1..Len(zf) : zf[i].filename = name}
    IN  zf[CHOOSE i \in idx : \A j \in idx : j <= i].data

\* info.filename.lower().endswith('.pdf')
IsPdf(name) == EndsWith(Lower(name), DotPdf)

\* pdf_files = [info for info in zf.infolist() if ...]
RECURSIVE PdfFiles(_)
PdfFiles(zf) ==
    IF zf = <<>> THEN <<>>
    ELSE IF IsPdf(Head(zf).filename)
         THEN <<Head(zf)>> \o PdfFiles(Tail(zf))
         ELSE PdfFiles(Tail(zf))

(* ----------------------------- process_pdf ---------------------------- *)
\* the company name: first of the first two pages whose text matches
ExtractEmpresa(pages) ==
    LET n == Min(2, Len(pages))
        hits == {i \in 1..n : pages[i].match}
    IN  IF hits = {} THEN NoneStr
        ELSE Some(Strip(pages[CHOOSE i \in hits : \A j \in hits : i <= j].group2))

\* the value returned by the try block
TryResult(b) ==
    LET c == process_pdf_classify(b.text)
    IN  [empresa |-> ExtractEmpresa(b.pages), rf |-> c.rf, pgfn |-> c.pgfn]

\* return None, False, False
ExceptResult == [empresa |-> NoneStr, rf |-> FALSE, pgfn |-> FALSE]

\* PdfReader / pdfplumber raise on bytes that are no readable PDF
ExtractionRaises(b) == ~b.readable

N == Len(futs)
Futures == 1..N
SetFut(i, st, res) ==
    futs' = [futs EXCEPT ![i] = [@ EXCEPT !.state = st, !.result = res]]

accum == <<all_results, matched_files, unmatched_files, processed>>
mainVars == <<archive, search_terms, pc, collected, total_pdfs, errors, session,
              display, out_zip, dash>>

\* a worker runs the try block to its return
ProcessPdfReturns(i) ==
    /\ pc = "loop"
    /\ futs[i].state = "pending"
    /\ ~ExtractionRaises(futs[i].data)
    /\ SetFut(i, "returned", TryResult(futs[i].data))
    /\ UNCHANGED <<accum, mainVars, classVars, filterVars>>

\* mutant: the worker files the unreadable document itself
ProcessPdfCaughtWritesUnmatched(i) ==
    /\ pc = "loop"
    /\ futs[i].state = "pending"
    /\ ExtractionRaises(futs[i].data)
    /\ SetFut(i, "returned", ExceptResult)
    /\ unmatched_files' = Append(unmatched_files,
            [name |-> futs[i].filename, data |-> futs[i].data])
    /\ UNCHANGED <<all_results, matched_files, processed, mainVars, classVars,
                   filterVars>>

\* the try block raises, the handler reports and returns (None, False, False)
ProcessPdfCaught(i) ==
    /\ pc = "loop"
    /\ futs[i].state = "pending"
    /\ ExtractionRaises(futs[i].data)
    /\ SetFut(i, "returned", ExceptResult)
    /\ UNCHANGED <<accum, mainVars, classVars, filterVars>>

\* the try block raises and st.error, called in a pool thread that has no
\* script-run context, raises out of the handler: the future holds an exception
ProcessPdfRaises(i) ==
    /\ pc = "loop"
    /\ futs[i].state = "pending"
    /\ ExtractionRaises(futs[i].data)
    /\ SetFut(i, "raised", ExceptResult)
    /\ UNCHANGED <<accum, mainVars, classVars, filterVars>>

(* ---------------------------- filter_results -------------------------- *)
\* any(term.lower() in empresa for term in search_terms)
AnyTermIn(empresa, terms) ==
    \E k \in 1..Len(terms) : In(Lower(terms[k]), empresa)

RECURSIVE FilterLoop(_, _, _)
FilterLoop(results, terms, filtered) ==
    IF results = <<>> THEN filtered
    ELSE LET result == Head(results)
             empresa == Lower(result.empresa)
         IN  FilterLoop(Tail(results), terms,
                        IF AnyTermIn(empresa, terms)
                        THEN Append(filtered, result) ELSE filtered)

\* mutant: the company name is compared without lower-casing it
RECURSIVE FilterLoopCaseSensitive(_, _, _)
FilterLoopCaseSensitive(results, terms, filtered) ==
    IF results = <<>> THEN filtered
    ELSE LET result == Head(results)
         IN  FilterLoopCaseSensitive(Tail(results), terms,
                        IF AnyTermIn(result.empresa, terms)
                        THEN Append(filtered, result) ELSE filtered)
filter_results_case_sensitive(results, terms) ==
    IF terms = <<>> THEN results ELSE FilterLoopCaseSensitive(results, terms, <<>>)

filter_results(results, terms) ==
    IF terms = <<>> THEN results ELSE FilterLoop(results, terms, <<>>)

(* ------------------------- the aggregating loop ----------------------- *)
\* mutant: the renamed file keeps no extension
NewNameNoExtension(empresa) == empresa

\* new_name = f"{empresa}.pdf"
NewName(empresa) == empresa \o DotPdf

\* the try block of the loop body, for a future that holds a result
CollectResult(i) ==
    LET filename == futs[i].filename
        r == futs[i].result
    IN  IF Truthy(r.empresa)
        THEN /\ all_results' = Append(all_results,
                    [empresa |-> r.empresa.s, rf |-> r.rf, pgfn |-> r.pgfn,
                     filename |-> filename])
             /\ matched_files' = Append(matched_files,
                    [name |-> NewName(r.empresa.s), data |-> zfRead(archive, filename)])
             /\ UNCHANGED <<unmatched_files, errors>>
        ELSE /\ unmatched_files' = Append(unmatched_files,
                    [name |-> filename, data |-> zfRead(archive, filename)])
             /\ UNCHANGED <<all_results, matched_files, errors>>

\* mutant: a future that raised is filed under the unmatched files
CollectExceptionAsUnmatched(i) ==
    /\ errors' = Append(errors, futs[i].filename)
    /\ unmatched_files' = Append(unmatched_files,
            [name |-> futs[i].filename, data |-> zfRead(archive, futs[i].filename)])
    /\ UNCHANGED <<all_results, matched_files>>

\* future.result() raises: the except branch reports the file
CollectException(i) ==
    /\ errors' = Append(errors, futs[i].filename)
    /\ UNCHANGED <<all_results, matched_files, unmatched_files>>

\* mutant: the counter is advanced inside the try block only
ProgressOnResultOnly(i) ==
    processed' = IF futs[i].state = "raised" THEN processed ELSE processed + 1

\* processed += 1
Progress(i) == processed' = processed + 1

\* one iteration of  for future in as_completed(future_to_file)
Collect(i) ==
    /\ pc = "loop"
    /\ i \notin collected
    /\ futs[i].state # "pending"
    /\ IF futs[i].state = "returned" THEN CollectResult(i) ELSE CollectException(i)
    /\ Progress(i)
    /\ collected' = collected \cup {i}
    /\ UNCHANGED <<archive, search_terms, pc, futs, total_pdfs, session, display,
                   out_zip, dash, classVars, filterVars>>

\* opening the archive, listing its PDFs and submitting one task per entry
Submit ==
    /\ pc = "start"
    /\ LET pdf_files == PdfFiles(archive)
       IN  /\ total_pdfs' = Len(pdf_files)
           /\ futs' = [i \in 1..Len(pdf_files) |->
                        [filename |-> pdf_files[i].filename,
                         data |-> zfRead(archive, pdf_files[i].filename),
                         state |-> "pending",
                         result |-> ExceptResult]]
    /\ all_results' = <<>>
    /\ matched_files' = <<>>
    /\ unmatched_files' = <<>>
    /\ processed' = 0
    /\ pc' = "loop"
    /\ UNCHANGED <<archive, search_terms, collected, errors, session, display,
                   out_zip, dash, classVars, filterVars>>

(* ------------------------- after the loop ----------------------------- *)
SimNao(b) == IF b THEN "Sim" ELSE "Nao"
Rows(results) ==
    [k \in 1..Len(results) |->
        [Empresa |-> results[k].empresa,
         RF |-> SimNao(results[k].rf),
         PGFN |-> SimNao(results[k].pgfn)]]

\* mutant: an empty filtered list is rendered as an empty table
ShowResultsNoWarning(results, terms) ==
    IF terms # <<>>
    THEN [kind |-> "table", rows |-> Rows(filter_results(results, terms))]
    ELSE [kind |-> "table", rows |-> Rows(results)]

\* the table or the warning rendered under "Exibe resultados"
ShowResults(results, terms) ==
    IF terms # <<>>
    THEN LET filtered_results == filter_results(results, terms)
         IN  IF filtered_results # <<>>
             THEN [kind |-> "table", rows |-> Rows(filtered_results)]
             ELSE [kind |-> "warning", rows |-> <<>>]
    ELSE [kind |-> "table", rows |-> Rows(results)]

Renomeados == <<"renomeados/">>
NaoEncontrados == <<"nao_encontrados/">>

\* mutant: every PDF entry of the upload is copied under nao_encontrados/
BuildZipAllEntries(matched, unmatched) ==
    [k \in 1..Len(matched) |->
        [name |-> Renomeados \o matched[k].name, data |-> matched[k].data]]
    \o [k \in 1..Len(PdfFiles(archive)) |->
        [name |-> NaoEncontrados \o PdfFiles(archive)[k].filename,
         data |-> PdfFiles(archive)[k].data]]

\* the entries written to the output archive
BuildZip(matched, unmatched) ==
    [k \in 1..Len(matched) |->
        [name |-> Renomeados \o matched[k].name, data |-> matched[k].data]]
    \o [k \in 1..Len(unmatched) |->
        [name |-> NaoEncontrados \o unmatched[k].name, data |-> unmatched[k].data]]

\* the loop is exhausted: save to the session, render, build the archive
Finish ==
    /\ pc = "loop"
    /\ collected = Futures
    /\ session' = [set |-> TRUE, all_results |-> all_results,
                   matched_files |-> matched_files,
                   unmatched_files |-> unmatched_files,
                   search_terms |-> search_terms]
    /\ display' = ShowResults(all_results, search_terms)
    /\ out_zip' = BuildZip(matched_files, unmatched_files)
    /\ pc' = "done"
    /\ UNCHANGED <<archive, search_terms, futs, collected, total_pdfs, errors, dash,
                   accum, classVars, filterVars>>

(* --------------------------- the dashboard ---------------------------- *)
Selecione == <<"(Selecione)">>
NoDash == [kind |-> "none", sel |-> <<>>, data |-> <<>>]
NoSession ==
    [set |-> FALSE, all_results |-> <<>>, matched_files |-> <<>>,
     unmatched_files |-> <<>>, search_terms |-> <<>>]

\* the select box: "(Selecione)" and the distinct company names
Options(results) == {Selecione} \cup {results[k].empresa : k \in 1..Len(results)}

\* for fname, fbytes in matched_files: if fname == nome_pdf: ... break
Lookup(matched, nome_pdf) ==
    LET hits == {k \in 1..Len(matched) : matched[k].name = nome_pdf}
    IN  IF hits = {} THEN <<>>
        ELSE <<matched[CHOOSE k \in hits : \A j \in hits : k <= j].data>>

\* if not dados or not dados.get('all_results'): st.warning(...); st.stop()
DashboardNoData ==
    /\ pc \in {"start", "done"}
    /\ ~session.set \/ session.all_results = <<>>
    /\ dash' = [kind |-> "warning", sel |-> <<>>, data |-> <<>>]
    /\ UNCHANGED <<archive, search_terms, pc, futs, collected, total_pdfs, errors,
                   session, display, out_zip, accum, classVars, filterVars>>

\* the page is rendered with a company chosen in the select box
DashboardSelect(empresa_selecionada) ==
    /\ pc = "done"
    /\ session.set
    /\ session.all_results # <<>>
    /\ empresa_selecionada \in Options(session.all_results)
    /\ IF empresa_selecionada # <<>> /\ empresa_selecionada # Selecione
       THEN LET nome_pdf == empresa_selecionada \o DotPdf
                pdf_bytes == Lookup(session.matched_files, nome_pdf)
            IN  dash' = [kind |-> IF pdf_bytes # <<>> THEN "found" ELSE "notfound",
                         sel |-> empresa_selecionada, data |-> pdf_bytes]
       ELSE dash' = [kind |-> "idle", sel |-> empresa_selecionada, data |-> <<>>]
    /\ UNCHANGED <<archive, search_terms, pc, futs, collected, total_pdfs, errors,
                   session, display, out_zip, accum, classVars, filterVars>>

(* ----------------------- the batch specification ---------------------- *)
BatchIdle ==
    /\ pc = "start"
    /\ futs = <<>>
    /\ collected = {}
    /\ total_pdfs = 0
    /\ processed = 0
    /\ all_results = <<>>
    /\ matched_files = <<>>
    /\ unmatched_files = <<>>
    /\ errors = <<>>
    /\ session = NoSession
    /\ display = [kind |-> "none", rows |-> <<>>]
    /\ out_zip = <<>>
    /\ dash = NoDash

NoCls == [called |-> FALSE, analyze |-> [rf |-> FALSE, pgfn |-> FALSE],
          inline |-> [rf |-> FALSE, pgfn |-> FALSE]]
ClassIdle == text = <<>> /\ nfrags = 0 /\ cls = NoCls
NoOut == [called |-> FALSE, value |-> <<>>]
FilterIdle == f_results = <<>> /\ f_terms = <<>> /\ f_out = NoOut

Init ==
    /\ archive \in SeqsUpTo(Entries, MaxEntries)
    /\ search_terms \in SearchInputs
    /\ BatchIdle
    /\ ClassIdle
    /\ FilterIdle

Worker(i) == ProcessPdfReturns(i) \/ ProcessPdfCaught(i) \/ ProcessPdfRaises(i)

Next ==
    \/ Submit
    \/ \E i \in Futures : ProcessPdfReturns(i)
    \/ \E i \in Futures : ProcessPdfCaught(i)
    \/ \E i \in Futures : ProcessPdfRaises(i)
    \/ \E i \in Futures : Collect(i)
    \/ Finish
    \/ DashboardNoData
    \/ \E e \in Options(session.all_results) : DashboardSelect(e)

Spec == Init /\ [][Next]_vars

\* One script run on its own (no dashboard rendering), over archives whose
\* documents stand for the three outcomes of a unit: a name, no name, an error.
RunBlobs == {BlobAcmeRf, BlobLateHeader, BlobCorrupt}
RunEntries == [filename : FileNames, data : RunBlobs]

InitRun ==
    /\ archive \in SeqsUpTo(RunEntries, MaxEntries)
    /\ search_terms = <<>>
    /\ BatchIdle
    /\ ClassIdle
    /\ FilterIdle

NextRun ==
    \/ Submit
    \/ \E i \in Futures : ProcessPdfReturns(i)
    \/ \E i \in Futures : ProcessPdfCaught(i)
    \/ \E i \in Futures : ProcessPdfRaises(i)
    \/ \E i \in Futures : Collect(i)
    \/ Finish

\* the script run is not interrupted, the pool runs every submitted task to its
\* end, and as_completed yields every finished future
FairSpec ==
    /\ InitRun /\ [][NextRun]_vars
    /\ WF_vars(Submit)
    /\ WF_vars(\E i \in Futures : Worker(i))
    /\ WF_vars(\E i \in Futures : Collect(i))
    /\ WF_vars(Finish)

(* --------------------- the classifier specification ------------------- *)
Fragments ==
    { rf_title, pgfn_title, EM_PARCELAMENTO, PENDENCIA_PARCELAMENTO,
      BASE_INDISPONIVEL, PARCELAMENTO_WORD, NAO_FORAM_DETECTADAS,
      <<"Diagnostico Fiscal na">>, <<"EM">> }

AppendFragment(f) ==
    /\ ~cls.called
    /\ nfrags < MaxFrags
    /\ text' = text \o f
    /\ nfrags' = nfrags + 1
    /\ UNCHANGED <<cls, batchVars, filterVars>>

Classify ==
    /\ ~cls.called
    /\ cls' = [called |-> TRUE, analyze |-> analyze_text(text),
               inline |-> process_pdf_classify(text)]
    /\ UNCHANGED <<text, nfrags, batchVars, filterVars>>

InitClassify ==
    /\ archive = <<>>
    /\ search_terms = <<>>
    /\ BatchIdle
    /\ ClassIdle
    /\ FilterIdle

NextClassify == (\E f \in Fragments : AppendFragment(f)) \/ Classify

SpecClassify == InitClassify /\ [][NextClassify]_vars

(* ----------------------- the filter specification --------------------- *)
FilterRecs ==
    { [empresa |-> Acme, rf |-> TRUE, pgfn |-> FALSE, filename |-> <<"a">> \o DotPdf],
      [empresa |-> Acme, rf |-> FALSE, pgfn |-> TRUE,
       filename |-> <<"b", ".", "P", "D", "F">>],
      [empresa |-> <<"A", "C", "E">>, rf |-> FALSE, pgfn |-> FALSE,
       filename |-> <<"a">> \o DotPdf],
      [empresa |-> <<"B", "e", "t", "a">>, rf |-> TRUE, pgfn |-> TRUE,
       filename |-> <<"a">> \o DotPdf] }
FilterTerms == { <<"a", "c">>, <<"A", "C", "E">>, <<"t", "A">>, <<>> }

AddRecord(r) ==
    /\ ~f_out.called
    /\ Len(f_results) < MaxRecs
    /\ f_results' = Append(f_results, r)
    /\ UNCHANGED <<f_terms, f_out, batchVars, classVars>>

AddTerm(t) ==
    /\ ~f_out.called
    /\ Len(f_terms) < MaxTerms
    /\ f_terms' = Append(f_terms, t)
    /\ UNCHANGED <<f_results, f_out, batchVars, classVars>>

CallFilter ==
    /\ ~f_out.called
    /\ f_out' = [called |-> TRUE, value |-> filter_results(f_results, f_terms)]
    /\ UNCHANGED <<f_results, f_terms, batchVars, classVars>>

NextFilter ==
    \/ \E r \in FilterRecs : AddRecord(r)
    \/ \E t \in FilterTerms : AddTerm(t)
    \/ CallFilter

InitFilter ==
    /\ archive = <<>>
    /\ search_terms = <<>>
    /\ BatchIdle
    /\ ClassIdle
    /\ FilterIdle

SpecFilter == InitFilter /\ [][NextFilter]_vars

(* ============================== claims ================================ *)
CountSeq(q, x) == Cardinality({k \in 1..Len(q) : q[k] = x})
PdfNames == {archive[k].filename : k \in {j \in 1..Len(archive) : IsPdf(archive[j].filename)}}
RecordsOf(f) == {k \in 1..Len(all_results) : all_results[k].filename = f}
UnmatchedOf(f) == {k \in 1..Len(unmatched_files) : unmatched_files[k].name = f}
Returned(i) == futs[i].state = "returned"
Raised(i) == futs[i].state = "raised"

\* C1: a collected entry whose extraction raised has no record and is in
\* neither bucket, and the run still collects every other entry.
C1_FailedUnitInNoBucket ==
    /\ \A i \in Futures :
         (i \in collected /\ ExtractionRaises(futs[i].data)) =>
            /\ RecordsOf(futs[i].filename) = {}
            /\ UnmatchedOf(futs[i].filename) = {}
    /\ pc = "done" => collected = Futures

\* C2: after any number of collected units, all_results and matched_files have
\* the same length and matched_files[k] is (empresa + ".pdf", bytes of the
\* archive entry all_results[k].filename).
C2_MatchedMirrorsRecords ==
    /\ Len(all_results) = Len(matched_files)
    /\ \A k \in 1..Len(all_results) :
         /\ matched_files[k].name = all_results[k].empresa \o <<".", "p", "d", "f">>
         /\ matched_files[k].data = zfRead(archive, all_results[k].filename)

C2_Witness ==
    /\ pc = "loop"
    /\ Len(all_results) = 2
    /\ all_results[1].filename # all_results[2].filename
    /\ matched_files[1].data # matched_files[2].data

IsFirst(pat, p) ==
    /\ OccursAt(text, pat, p)
    /\ \A q \in 0..Len(text) : OccursAt(text, pat, q) => p <= q

C4_RfExpected ==
    \E a, b \in 0..Len(text) :
        /\ IsFirst(rf_title, a)
        /\ IsFirst(pgfn_title, b)
        /\ a < b
        /\ \E p \in a..b : /\ OccursAt(text, EM_PARCELAMENTO, p)
                           /\ p + Len(EM_PARCELAMENTO) <= b

C4_PgfnExpected ==
    \E b \in 0..Len(text) :
        /\ IsFirst(pgfn_title, b)
        /\ \E p \in b..Len(text) : OccursAt(text, PENDENCIA_PARCELAMENTO, p)

\* C4: rf is true iff both headers occur, the first RF header starts before the
\* first PGFN header and "EM PARCELAMENTO" lies between them; pgfn is true iff
\* the PGFN header occurs and "Pendencia - Parcelamento" occurs from it on; the
\* inlined copy in process_pdf agrees.
C4_ClassifierIff ==
    cls.called =>
        /\ cls.analyze = [rf |-> C4_RfExpected, pgfn |-> C4_PgfnExpected]
        /\ cls.inline = [rf |-> C4_RfExpected, pgfn |-> C4_PgfnExpected]
        /\ (\A p \in 0..Len(text) : ~OccursAt(text, pgfn_title, p))
              => cls.analyze = [rf |-> FALSE, pgfn |-> FALSE]

C4_Witness ==
    /\ cls.called
    /\ cls.analyze.rf
    /\ cls.analyze.pgfn

\* C5: processed starts at 0, counts the collected units one by one whatever
\* their outcome, never exceeds total, eventually equals total with the run
\* finished, and from then on the batch result no longer changes.
C5_ProgressReachesTotal ==
    /\ [](/\ processed = Cardinality(collected)
          /\ pc # "start" => /\ processed <= total_pdfs
                             /\ total_pdfs = Len(PdfFiles(archive)))
    /\ [][\/ /\ processed' = processed
             /\ collected' = collected
          \/ /\ processed' = processed + 1
             /\ \E i \in Futures : i \notin collected /\ collected' = collected \cup {i}]_vars
    /\ <>(pc = "done" /\ processed = total_pdfs)
    /\ [][(pc # "start" /\ processed = total_pdfs) => UNCHANGED accum]_vars

C5_Witness ==
    /\ pc = "done"
    /\ processed = 2
    /\ \E i \in Futures : Raised(i)
    /\ \E i \in Futures : Returned(i) /\ ~Truthy(futs[i].result.empresa)

ExpectedRecord(i) ==
    [empresa |-> futs[i].result.empresa.s, rf |-> futs[i].result.rf,
     pgfn |-> futs[i].result.pgfn, filename |-> futs[i].filename]
ExpectedMatched(i) ==
    [name |-> futs[i].result.empresa.s \o DotPdf, data |-> futs[i].data]
ExpectedUnmatched(i) == [name |-> futs[i].filename, data |-> futs[i].data]
Named == {i \in Futures : Returned(i) /\ Truthy(futs[i].result.empresa)}
Unnamed == {i \in Futures : Returned(i) /\ ~Truthy(futs[i].result.empresa)}

\* the elements of q, with multiplicity, are the values g over the futures in S
SameBag(q, S, g(_)) ==
    /\ Len(q) = Cardinality(S)
    /\ \A i \in S : CountSeq(q, g(i)) = Cardinality({j \in S : g(j) = g(i)})

\* C6: the accumulation state changes only in a step of the aggregating loop
\* that consumes one finished future; a worker step leaves it alone; and the
\* final collections, as multisets, are determined by the futures' outcomes,
\* not by the order in which they were collected.
C6_SingleAggregator ==
    /\ [][accum' # accum =>
            \E i \in Futures : /\ i \notin collected
                               /\ futs[i].state # "pending"
                               /\ collected' = collected \cup {i}
                               /\ futs' = futs]_vars
    /\ [][(pc = "loop" /\ futs' # futs) => accum' = accum]_vars
    /\ [](pc = "done" =>
            /\ SameBag(all_results, Named, ExpectedRecord)
            /\ SameBag(matched_files, Named, ExpectedMatched)
            /\ SameBag(unmatched_files, Unnamed, ExpectedUnmatched))

C6_Witness ==
    /\ pc = "done"
    /\ Len(all_results) = 2
    /\ all_results[1].filename = <<"b", ".", "P", "D", "F">>
    /\ all_results[2].filename = <<"a">> \o DotPdf
    /\ all_results[1].rf # all_results[2].rf

\* the lower-cased company name contains some lower-cased term
C7_Keeps(r) ==
    \E t \in 1..Len(f_terms) :
        \E p \in 0..Len(r.empresa) : OccursAt(Lower(r.empresa), Lower(f_terms[t]), p)

\* C7: with no terms the records come back unchanged; otherwise the result is
\* exactly the records whose lower-cased name contains a lower-cased term, in
\* their original order, each once and unaltered.
C7_FilterKeepsMatching ==
    f_out.called =>
        IF f_terms = <<>>
        THEN f_out.value = f_results
        ELSE LET K == {i \in 1..Len(f_results) : C7_Keeps(f_results[i])}
             IN  /\ Len(f_out.value) = Cardinality(K)
                 /\ \A i \in K :
                      f_out.value[Cardinality({k \in K : k <= i})] = f_results[i]

C7_Witness ==
    /\ f_out.called
    /\ Len(f_terms) = 2
    /\ Len(f_results) = 2
    /\ Len(f_out.value) = 1
    /\ f_out.value[1] = f_results[2]
    /\ f_out.value[1].empresa = <<"A", "C", "E">>

NoPdfInArchive == \A k \in 1..Len(archive) : ~IsPdf(archive[k].filename)

\* C8 as stated: a finished run over an archive without PDF entries has reported
\* no error, holds an empty result set, and a warning has been shown, with or
\* without search terms.
C8_ZeroPdfWarns ==
    (pc = "done" /\ NoPdfInArchive) =>
        /\ errors = <<>>
        /\ all_results = <<>> /\ matched_files = <<>> /\ unmatched_files = <<>>
        /\ display.kind = "warning" \/ dash.kind = "warning"

\* C8 amended: a finished run over an archive without PDF entries has reported
\* no error and holds an empty result set; the page of the run shows a warning
\* exactly when search terms were entered (an empty table otherwise), and the
\* dashboard page, whenever it is rendered, shows its warning and stops.
C8_ZeroPdfEmptyResult ==
    (pc = "done" /\ NoPdfInArchive) =>
        /\ errors = <<>>
        /\ all_results = <<>> /\ matched_files = <<>> /\ unmatched_files = <<>>
        /\ session.set /\ session.all_results = <<>>
        /\ out_zip = <<>>
        /\ display.kind = "warning" <=> search_terms # <<>>
        /\ search_terms = <<>> => display = [kind |-> "table", rows |-> <<>>]
        /\ dash.kind \in {"none", "warning"}
        /\ ENABLED DashboardNoData

C8_Witness ==
    /\ pc = "done"
    /\ NoPdfInArchive
    /\ Len(archive) = 2
    /\ search_terms = <<>>
    /\ display = [kind |-> "table", rows |-> <<>>]
    /\ dash.kind = "warning"

\* C9: the output archive holds one renomeados/<companyName>.pdf entry per
\* matched file and one nao_encontrados/<originalName> entry per unmatched file,
\* each with that file's bytes, and nothing else: no entry of a non-PDF file and
\* none of a file that was put in no bucket.
C9_OutputArchive ==
    pc = "done" =>
        /\ Len(out_zip) = Len(matched_files) + Len(unmatched_files)
        /\ \A k \in 1..Len(matched_files) :
             out_zip[k] = [name |-> <<"renomeados/">> \o all_results[k].empresa \o DotPdf,
                           data |-> matched_files[k].data]
        /\ \A k \in 1..Len(unmatched_files) :
             out_zip[Len(matched_files) + k] =
                 [name |-> <<"nao_encontrados/">> \o unmatched_files[k].name,
                  data |-> unmatched_files[k].data]
        /\ \A e \in 1..Len(archive) : \A k \in 1..Len(out_zip) :
             ~IsPdf(archive[e].filename) =>
                 out_zip[k].name # <<"nao_encontrados/">> \o archive[e].filename
        /\ \A f \in PdfNames :
             Cardinality({k \in 1..Len(out_zip) :
                            out_zip[k].name = <<"nao_encontrados/">> \o f})
               = Cardinality({i \in Futures : /\ futs[i].filename = f
                                              /\ Returned(i)
                                              /\ ~Truthy(futs[i].result.empresa)})

C9_Witness ==
    /\ pc = "done"
    /\ Len(matched_files) = 1
    /\ Len(unmatched_files) = 1
    /\ Len(out_zip) = 2

\* C10: a download found by the dashboard for a company name carries the bytes
\* of the source file of every record of that company.
C10_DownloadIsOwnFile ==
    dash.kind = "found" =>
        \A k \in 1..Len(session.all_results) :
            session.all_results[k].empresa = dash.sel =>
                dash.data = <<zfRead(archive, session.all_results[k].filename)>>

====
